---- MODULE Spec2Model ----
(***************************************************************************)
(* Model of the two command-line programs of foundry-agent-mcp:            *)
(*   create-agent.py  (the Agent Provisioner)                              *)
(*   run-agent.py     (the Conversation Runner)                            *)
(* and of the registry file .agents.json they share.  The remote agent     *)
(* service is the environment: every call may fail and returns values      *)
(* drawn from small sets.                                                  *)
(***************************************************************************)
EXTENDS Integers, Sequences, FiniteSets, TLC

\* ------------------------------------------------------------------ bounds
\* Longest registry file (in key/value pairs) present before the first run.
MaxFileLen == 2
\* Message turns per Runner session.
MaxTurns == 2
\* Status fetches per turn.
MaxPolls == 3
\* Pending tool calls in one requires-action status.
MaxCalls == 2

\* ------------------------------------------------------------- value sets
\* Agent names in their sort order (json.dumps(sort_keys=True)).
NameOrder == <<"a", "b">>
Names == {NameOrder[i] : i \in DOMAIN NameOrder}
\* Identifiers the service may assign.
Ids == {"id1", "id2"}
\* A value that is absent (None).
None == "None"
\* Values of --model / MODEL_DEPLOYMENT_NAME / PROJECT_ENDPOINT.
OptValues == {None, "", "set"}
\* Values of MODEL_DEPLOYMENT_NAME.
EnvModels == {None, "set"}
ProvIds == {"p1", "p2"}

\* ---------------------------------------------------------- registry file
\* The file: absent, text that is not JSON, JSON that is no object, or a
\* JSON object written as its key/value pairs in textual order.
FileAbsent == [kind |-> "absent", pairs |-> <<>>]
FileInvalid == [kind |-> "invalid", pairs |-> <<>>]
FileNonObject == [kind |-> "nonobject", pairs |-> <<>>]
FileObject(ps) == [kind |-> "object", pairs |-> ps]

RECURSIVE SeqsUpTo(_, _)
SeqsUpTo(S, n) ==
  IF n = 0 THEN {<<>>}
  ELSE LET shorter == SeqsUpTo(S, n - 1)
       IN shorter \cup {Append(s, x) : s \in {t \in shorter : Len(t) = n - 1}, x \in S}

InitialFiles ==
  {FileAbsent, FileInvalid, FileNonObject}
    \cup {FileObject(ps) : ps \in SeqsUpTo(Names \X Ids, MaxFileLen)}

\* Path.exists()
Exists(f) == f.kind # "absent"

\* A parsed value: a dict (a function from names to identifiers) or some
\* other JSON value.
Dict(m) == [kind |-> "dict", map |-> m]
NonDict == [kind |-> "other", map |-> <<>>]
EmptyMap == [k \in {} |-> "id1"]

\* json.loads on an object: a later duplicate of a key wins.
PairsToMap(ps) ==
  LET keys == {ps[i][1] : i \in DOMAIN ps}
      last(k) == CHOOSE i \in DOMAIN ps :
                   /\ ps[i][1] = k
                   /\ \A j \in DOMAIN ps : ps[j][1] = k => j <= i
  IN [k \in keys |-> ps[last(k)][2]]

\* json.loads(AGENT_STORE_FILE.read_text()) when it does not raise.
Parses(f) == f.kind \in {"object", "nonobject"}
json_loads(f) == IF f.kind = "object" THEN Dict(PairsToMap(f.pairs)) ELSE NonDict

\* Mutant: the store is written as its Python repr, which is no JSON.
json_dumps_Repr(m) == FileInvalid
\* json.dumps(store, indent=2, sort_keys=True)
json_dumps(m) ==
  LET ks == SelectSeq(NameOrder, LAMBDA k : k \in DOMAIN m)
  IN FileObject([i \in 1..Len(ks) |-> <<ks[i], m[ks[i]]>>])

\* Mutant: an existing entry is kept (setdefault).
SetItem_KeepExisting(m, k, v) == [x \in DOMAIN m \cup {k} |-> IF x \in DOMAIN m THEN m[x] ELSE v]
\* Mutant: the store is replaced by the new entry alone.
SetItem_Replace(m, k, v) == [x \in {k} |-> v]
\* store[name] = id on a dict
SetItem(m, k, v) == [x \in DOMAIN m \cup {k} |-> IF x = k THEN v ELSE m[x]]

\* Mutant: a parse error is not caught.
load_store_create_NoFallback(f) ==
  IF Exists(f) THEN json_loads(f) ELSE Dict(EmptyMap)
\* create-agent.py load_store(): a missing or unparsable file is {}.
load_store_create(f) ==
  IF Exists(f)
  THEN IF Parses(f) THEN json_loads(f) ELSE Dict(EmptyMap)
  ELSE Dict(EmptyMap)

\* create-agent.py save_store(store)
save_store(m) == json_dumps(m)

\* run-agent.py load_store() when it returns; it exits when the file is
\* missing or does not parse.
load_store_run_ok(f) == Exists(f) /\ Parses(f)
load_store_run(f) == json_loads(f)

\* ------------------------------------------------------------ input lines
\* A line of text is the sequence of its characters.
EOF == <<"EOF">>
\* No line has been read yet.
NoLine == <<"NOLINE">>
Whitespace == {" ", "\t"}
UpperCase == <<"Q", "U", "I", "T", "E", "X", "S">>
LowerCase == <<"q", "u", "i", "t", "e", "x", "s">>

\* Mutant: the comparison is case-sensitive.
lower_CaseSensitive(s) == s
\* str.lower(), character by character
LowerChar(c) ==
  IF \E i \in DOMAIN UpperCase : UpperCase[i] = c
  THEN LowerCase[CHOOSE i \in DOMAIN UpperCase : UpperCase[i] = c]
  ELSE c
lower(s) == [i \in DOMAIN s |-> LowerChar(s[i])]

\* Mutant: the line is not stripped.
strip_None(s) == s
\* str.strip(): leading and trailing whitespace removed
strip(s) ==
  LET inner == {i \in DOMAIN s : s[i] \notin Whitespace}
  IN IF inner = {} THEN <<>>
     ELSE LET lo == CHOOSE i \in inner : \A j \in inner : i <= j
              hi == CHOOSE i \in inner : \A j \in inner : j <= i
          IN SubSeq(s, lo, hi)

\* {":quit", ":q", ":exit"}
QuitCommands == {<<":", "q", "u", "i", "t">>, <<":", "q">>, <<":", "e", "x", "i", "t">>}

\* What input("> ") may return, besides raising EOFError.
InputLines ==
  { <<>>, <<" ">>, <<"\t", " ">>,
    <<":", "q", "u", "i", "t">>, <<":", "q">>, <<":", "e", "x", "i", "t">>,
    <<" ", ":", "Q", " ">>, <<":", "E", "x", "i", "t">>, <<":", "Q", "U", "I", "T", "\t">>,
    <<" ", ":", "Q", "u", "i", "t", "s", " ">> }

\* ------------------------------------------------------------ remote runs
NonTerminal == {"queued", "in_progress", "requires_action"}
Terminal == {"completed", "failed", "cancelled"}
CallKinds == {"mcp", "function"}
CallIds == <<"c1", "c2", "c3", "c4">>

\* Pending tool calls: the i-th has identifier CallIds[i].
PendingCalls ==
  {[i \in DOMAIN ks |-> [id |-> CallIds[i], kind |-> ks[i]]] : ks \in SeqsUpTo(CallKinds, MaxCalls)}

Run(id, st, act, cs, err) ==
  [id |-> id, status |-> st, action |-> act, calls |-> cs, last_error |-> err]
NoRun == Run(0, "none", "none", <<>>, None)

\* The run objects the service may return for run `id`: required_action is
\* set exactly when the status is requires_action, last_error when failed.
RunObjects(id) ==
  {Run(id, st, "none", <<>>, None) : st \in {"queued", "in_progress", "completed", "cancelled"}}
    \cup {Run(id, "failed", "none", <<>>, "error")}
    \cup {Run(id, "requires_action", "submit_tool_outputs", <<>>, None)}
    \cup {Run(id, "requires_action", "submit_tool_approval", cs, None) : cs \in PendingCalls}

\* ---------------------------------------------------------------- thread
Message(role, turn, texts) == [role |-> role, turn |-> turn, texts |-> texts]
\* text_messages of a message the agent may add during a run.
AgentTexts == { <<>>, << <<>> >>, << <<"x">>, <<"y">> >> }
\* Thread after the service finished run `turn`: it may have added a message.
AfterRun(th, turn) ==
  {th} \cup {Append(th, Message("assistant", turn, ts)) : ts \in AgentTexts}

\* Step histories run_steps.list may return.
Step(activity, tools) == [activity |-> activity, tools |-> tools]
StepLists == { <<>>, <<Step(FALSE, <<>>)>>, <<Step(TRUE, <<"search", "fetch">>), Step(FALSE, <<>>)>> }

Event(op, arg) == [op |-> op, arg |-> arg]
\* The pending calls of a run that are remote-tool calls awaiting approval.
PendingMcp(r) ==
  IF r.action = "submit_tool_approval"
  THEN SelectSeq(r.calls, LAMBDA c : c.kind = "mcp") ELSE <<>>
\* What the log keeps of a fetched run: its status and how many remote-tool
\* calls await approval.
Observed(r) == [status |-> r.status, pending_mcp |-> Len(PendingMcp(r))]
RemoteOps == {"create_agent", "get_agent", "threads.create", "messages.create", "runs.create",
              "runs.get", "submit_tool_outputs", "messages.list", "run_steps.list"}

VARIABLES
  file,      \* .agents.json
  ppc,       \* provisioner: program position
  pcfg,      \* provisioner: --name, --model, environment
  pagent,    \* provisioner: agent.id returned by create_agent
  pstore,    \* provisioner: store
  plog,      \* provisioner: remote calls and file operations so far
  pfile0,    \* provisioner: the file when the process started
  provisioned, \* per name, the identifier its latest successful provisioning stored
  rpc,       \* runner: program position
  rcfg,      \* runner: --name and PROJECT_ENDPOINT
  agent_id,  \* runner: store[args.name]
  thread,    \* runner: messages of the session's remote thread
  run,       \* runner: the run object last returned
  approvals, \* runner: approvals collected for the next submission
  rline,     \* runner: the line input() returned last
  user_input,\* runner: that line stripped
  turns,     \* runner: messages submitted in this session
  rlog,      \* runner: calls, sleeps and prints since the last input
  rfile0     \* runner: the file when the process started

pvars == <<ppc, pcfg, pagent, pstore, plog, pfile0>>
rvars == <<rpc, rcfg, agent_id, thread, run, approvals, rline, user_input, turns, rlog, rfile0>>
vars == <<file, provisioned, ppc, pcfg, pagent, pstore, plog, pfile0,
          rpc, rcfg, agent_id, thread, run, approvals, rline, user_input, turns, rlog, rfile0>>

NoCfg == [name |-> "a", model |-> None, env_model |-> None, endpoint |-> None]
NoRCfg == [name |-> "a", endpoint |-> None]

\* not x, for a string or None
Truthy(v) == v # None /\ v # ""
\* model = args.model or os.environ.get("MODEL_DEPLOYMENT_NAME")
ResolveModel(c) == IF Truthy(c.model) THEN c.model ELSE c.env_model

\* The tools are invoked one at a time: a tool starts when no process is
\* alive.
NoneRunning == rpc = "idle" /\ \A q \in ProvIds : ppc[q] = "idle"

\* ------------------------------------------------------- create-agent.py
\* Mutant: the endpoint is not checked.
ProvisionerConfig_NoEndpointCheck(c) ==
  IF ~Truthy(ResolveModel(c)) THEN "fatal" ELSE "create"
\* Where main goes after reading its configuration (lines 63-69).
ProvisionerConfig(c) ==
  IF ~Truthy(ResolveModel(c)) THEN "fatal"
  ELSE IF ~Truthy(c.endpoint) THEN "fatal"
  ELSE "create"

\* main, lines 57-71: arguments and configuration.
P_Start(p) ==
  /\ ppc[p] = "idle"
  /\ \E n \in Names, m \in OptValues, em \in EnvModels, ep \in OptValues :
       LET c == [name |-> n, model |-> m, env_model |-> em, endpoint |-> ep]
       IN /\ pcfg' = [pcfg EXCEPT ![p] = c]
          /\ ppc' = [ppc EXCEPT ![p] = ProvisionerConfig(c)]
  /\ pfile0' = [pfile0 EXCEPT ![p] = file]
  /\ UNCHANGED <<file, provisioned, pagent, pstore, plog>>
  /\ UNCHANGED rvars

\* Mutant: a failed create_agent is retried.
AfterCreateAgent_Retry(ok) == IF ok THEN "load" ELSE "create"
\* What the process does after create_agent returned or raised.
AfterCreateAgent(ok) == IF ok THEN "load" ELSE "crashed"

\* lines 82-90: agents_client.create_agent(...) returns an agent or raises.
P_CreateAgent(p) ==
  /\ ppc[p] = "create"
  /\ \/ \E i \in Ids :
          /\ pagent' = [pagent EXCEPT ![p] = i]
          /\ ppc' = [ppc EXCEPT ![p] = AfterCreateAgent(TRUE)]
          /\ plog' = [plog EXCEPT ![p] = Append(@, "create_agent")]
     \/ /\ ppc' = [ppc EXCEPT ![p] = AfterCreateAgent(FALSE)]
        /\ plog' = [plog EXCEPT ![p] = @ \o <<"create_agent", "raise">>]
        /\ UNCHANGED pagent
  /\ UNCHANGED <<file, provisioned, pcfg, pstore, pfile0>>
  /\ UNCHANGED rvars

\* line 92: store = load_store()
P_Load(p) ==
  /\ ppc[p] = "load"
  /\ pstore' = [pstore EXCEPT ![p] = load_store_create(file)]
  /\ plog' = [plog EXCEPT ![p] = Append(@, "read")]
  /\ ppc' = [ppc EXCEPT ![p] = "save"]
  /\ UNCHANGED <<file, provisioned, pcfg, pagent, pfile0>>
  /\ UNCHANGED rvars

\* lines 93-96: store[args.name] = agent.id; save_store(store)
P_Save(p) ==
  /\ ppc[p] = "save"
  /\ IF pstore[p].kind = "dict"
     THEN LET s == SetItem(pstore[p].map, pcfg[p].name, pagent[p])
          IN /\ pstore' = [pstore EXCEPT ![p] = Dict(s)]
             /\ file' = save_store(s)
             /\ provisioned' = [provisioned EXCEPT ![pcfg[p].name] = pagent[p]]
             /\ plog' = [plog EXCEPT ![p] = Append(@, "write")]
             /\ ppc' = [ppc EXCEPT ![p] = "done"]
     ELSE \* item assignment on a value that is no dict raises TypeError
          /\ ppc' = [ppc EXCEPT ![p] = "crashed"]
          /\ UNCHANGED <<file, provisioned, pstore, plog>>
  /\ UNCHANGED <<pcfg, pagent, pfile0>>
  /\ UNCHANGED rvars

\* lines 99-100: main has returned or raised; the process is gone.
P_Exit(p) ==
  /\ ppc[p] \in {"done", "fatal", "crashed"}
  /\ ppc' = [ppc EXCEPT ![p] = "idle"]
  /\ pcfg' = [pcfg EXCEPT ![p] = NoCfg]
  /\ pagent' = [pagent EXCEPT ![p] = None]
  /\ pstore' = [pstore EXCEPT ![p] = Dict(EmptyMap)]
  /\ plog' = [plog EXCEPT ![p] = <<>>]
  /\ pfile0' = [pfile0 EXCEPT ![p] = FileAbsent]
  /\ UNCHANGED <<file, provisioned>>
  /\ UNCHANGED rvars

\* ---------------------------------------------------------- run-agent.py
\* The sleep between two status fetches, in seconds (line 108).
PollInterval == 1

Raised(log, op, arg) == log \o <<Event(op, arg), Event("raise", op)>>
Fetches(log) == Len(SelectSeq(log, LAMBDA e : e.op = "runs.get"))

\* Mutant: the identifier of some entry, whatever the name.
Lookup_AnyEntry(store, name) == store.map[CHOOSE k \in DOMAIN store.map : TRUE]
\* line 59: agent_id = store[args.name]
Lookup(store, name) == store.map[name]

\* Mutant: the name is not looked up before use.
RunnerLookup_NoNameCheck(store, c) ==
  IF store.kind # "dict" THEN {"fatal", "crashed"}
  ELSE IF ~Truthy(c.endpoint) THEN {"fatal"}
  ELSE {"get_agent"}
\* main, lines 53-65: where the process goes once the store is loaded.
RunnerLookup(store, c) ==
  IF store.kind # "dict" THEN {"fatal", "crashed"}
  ELSE IF c.name \notin DOMAIN store.map THEN {"fatal"}
  ELSE IF ~Truthy(c.endpoint) THEN {"fatal"}
  ELSE {"get_agent"}

\* Mutant: the store is written back once loaded.
R_Start_SavesStore ==
  /\ rpc = "idle"
  /\ \E n \in Names, ep \in OptValues :
       LET c == [name |-> n, endpoint |-> ep]
       IN /\ rcfg' = c
          /\ IF load_store_run_ok(file)
             THEN LET store == load_store_run(file)
                  IN /\ rpc' \in RunnerLookup(store, c)
                     /\ agent_id' = IF store.kind = "dict" /\ c.name \in DOMAIN store.map
                                    THEN Lookup(store, c.name) ELSE None
                     /\ rlog' = <<Event("read", None)>>
                     /\ file' = IF store.kind = "dict" THEN save_store(store.map) ELSE file
             ELSE /\ rpc' = "fatal"
                  /\ agent_id' = None
                  /\ rlog' = IF Exists(file) THEN <<Event("read", None)>> ELSE <<>>
                  /\ file' = file
  /\ rfile0' = file
  /\ UNCHANGED <<provisioned, thread, run, approvals, rline, user_input, turns>>
  /\ UNCHANGED pvars
\* main, lines 49-67: arguments, registry lookup and configuration.
R_Start ==
  /\ rpc = "idle"
  /\ \E n \in Names, ep \in OptValues :
       LET c == [name |-> n, endpoint |-> ep]
       IN /\ rcfg' = c
          /\ IF load_store_run_ok(file)
             THEN LET store == load_store_run(file)
                  IN /\ rpc' \in RunnerLookup(store, c)
                     /\ agent_id' = IF store.kind = "dict" /\ c.name \in DOMAIN store.map
                                    THEN Lookup(store, c.name) ELSE None
                     /\ rlog' = <<Event("read", None)>>
             ELSE /\ rpc' = "fatal"
                  /\ agent_id' = None
                  /\ rlog' = IF Exists(file) THEN <<Event("read", None)>> ELSE <<>>
  /\ rfile0' = file
  /\ UNCHANGED <<file, provisioned, thread, run, approvals, rline, user_input, turns>>
  /\ UNCHANGED pvars

\* lines 73-76: get_agent; a failure is turned into SystemExit.
R_GetAgent ==
  /\ rpc = "get_agent"
  /\ \/ /\ rlog' = Append(rlog, Event("get_agent", agent_id))
        /\ rpc' = "create_thread"
     \/ /\ rlog' = Raised(rlog, "get_agent", agent_id)
        /\ rpc' = "fatal"
  /\ UNCHANGED <<file, provisioned, rcfg, agent_id, thread, run, approvals, rline, user_input, turns, rfile0>>
  /\ UNCHANGED pvars

\* lines 78-80: threads.create and the banner.
R_CreateThread ==
  /\ rpc = "create_thread"
  /\ \/ /\ rlog' = rlog \o <<Event("threads.create", None), Event("print_session", None),
                             Event("print_help", None)>>
        /\ rpc' = "input"
     \/ /\ rlog' = Raised(rlog, "threads.create", None)
        /\ rpc' = "crashed"
  /\ thread' = <<>>
  /\ UNCHANGED <<file, provisioned, rcfg, agent_id, run, approvals, rline, user_input, turns, rfile0>>
  /\ UNCHANGED pvars

\* lines 88-91: what the loop does with the stripped line.
Dispatch(u) ==
  IF u = <<>> THEN "input"
  ELSE IF lower(u) \in QuitCommands THEN "exit0"
  ELSE "create_message"

\* lines 82-91 and 150: read a line; blank, quit command or text.
R_Input ==
  /\ rpc = "input"
  /\ \/ /\ rline' = EOF
        /\ rlog' = <<Event("print_newline", None), Event("print_exiting", None)>>
        /\ rpc' = "exit0"
        /\ UNCHANGED user_input
     \/ \E line \in InputLines :
          /\ rline' = line
          /\ user_input' = strip(line)
          /\ rpc' = Dispatch(user_input')
          /\ rlog' = IF rpc' = "exit0" THEN <<Event("print_exiting", None)>> ELSE <<>>
  /\ approvals' = <<>>
  /\ UNCHANGED <<file, provisioned, rcfg, agent_id, thread, run, turns, rfile0>>
  /\ UNCHANGED pvars

\* lines 93-98: messages.create
R_CreateMessage ==
  /\ rpc = "create_message"
  /\ turns < MaxTurns
  /\ \/ /\ thread' = Append(thread, Message("user", turns + 1, <<user_input>>))
        /\ turns' = turns + 1
        /\ rlog' = rlog \o <<Event("messages.create", user_input),
                             Event("print_created_message", None)>>
        /\ rpc' = "create_run"
     \/ /\ rlog' = Raised(rlog, "messages.create", user_input)
        /\ rpc' = "crashed"
        /\ UNCHANGED <<thread, turns>>
  /\ UNCHANGED <<file, provisioned, rcfg, agent_id, run, approvals, rline, user_input, rfile0>>
  /\ UNCHANGED pvars

\* Mutant: the status is fetched again without sleeping.
AfterStatus_NoSleep(r) ==
  IF r.status \in NonTerminal THEN "get_run"
  ELSE IF r.status = "failed" THEN "input"
  ELSE "list_messages"
\* Mutant: only queued and in-progress runs are polled.
AfterStatus_StopsOnAction(r) ==
  IF r.status \in {"queued", "in_progress"} THEN "sleep"
  ELSE IF r.status = "failed" THEN "input"
  ELSE "list_messages"
\* Mutant: completed is polled like a non-terminal status.
AfterStatus_PollsCompleted(r) ==
  IF r.status \in NonTerminal \cup {"completed"} THEN "sleep"
  ELSE IF r.status = "failed" THEN "input"
  ELSE "list_messages"
\* Mutant: a failed run is handled like any other terminal run.
AfterStatus_NoFailedCheck(r) ==
  IF r.status \in NonTerminal THEN "sleep" ELSE "list_messages"
\* lines 107 and 127-129: the loop test on run.status and, once the status
\* is terminal, the failed check.  The position the Runner goes to.
AfterStatus(r) ==
  IF r.status \in NonTerminal THEN "sleep"
  ELSE IF r.status = "failed" THEN "input"
  ELSE "list_messages"
\* What it prints on the way (line 128).
AfterStatusLog(r) ==
  IF r.status = "failed" THEN <<Event("print_run_failed", r.last_error)>> ELSE <<>>

\* Mutant: a failed runs.create is reported and the loop prompts again.
R_CreateRun_Recovers ==
  /\ rpc = "create_run"
  /\ \/ \E r \in RunObjects(turns) :
          /\ run' = r
          /\ thread' \in (IF r.status \in Terminal THEN AfterRun(thread, turns) ELSE {thread})
          /\ rlog' = rlog \o <<Event("runs.create", [agent_id |-> agent_id, status |-> r.status]),
                               Event("print_run", r.status)>> \o AfterStatusLog(r)
          /\ rpc' = AfterStatus(r)
     \/ /\ rlog' = Raised(rlog, "runs.create", [agent_id |-> agent_id, status |-> "none"])
        /\ rpc' = "input"
        /\ UNCHANGED <<run, thread>>
  /\ UNCHANGED <<file, provisioned, rcfg, agent_id, approvals, rline, user_input, turns, rfile0>>
  /\ UNCHANGED pvars
\* lines 101-107: runs.create
R_CreateRun ==
  /\ rpc = "create_run"
  /\ \/ \E r \in RunObjects(turns) :
          /\ run' = r
          /\ thread' \in (IF r.status \in Terminal THEN AfterRun(thread, turns) ELSE {thread})
          /\ rlog' = rlog \o <<Event("runs.create", [agent_id |-> agent_id, status |-> r.status]),
                               Event("print_run", r.status)>> \o AfterStatusLog(r)
          /\ rpc' = AfterStatus(r)
     \/ /\ rlog' = Raised(rlog, "runs.create", [agent_id |-> agent_id, status |-> "none"])
        /\ rpc' = "crashed"
        /\ UNCHANGED <<run, thread>>
  /\ UNCHANGED <<file, provisioned, rcfg, agent_id, approvals, rline, user_input, turns, rfile0>>
  /\ UNCHANGED pvars

\* line 108: time.sleep(1)
R_Sleep ==
  /\ rpc = "sleep"
  /\ Fetches(rlog) < MaxPolls
  /\ rlog' = Append(rlog, Event("sleep", PollInterval))
  /\ rpc' = "get_run"
  /\ UNCHANGED <<file, provisioned, rcfg, agent_id, thread, run, approvals, rline, user_input, turns, rfile0>>
  /\ UNCHANGED pvars

\* lines 112-118: the approvals built for a fetched run
NeedsApproval(r) == r.status = "requires_action" /\ r.action = "submit_tool_approval"
\* Mutant: every pending call is approved, whatever its kind.
IsMcp_AnyKind(c) == TRUE
\* line 116: isinstance(tool_call, RequiredMcpToolCall)
IsMcp(c) == c.kind = "mcp"
ToolApproval(c) == [tool_call_id |-> c.id, approve |-> TRUE]
BuildApprovals(r) ==
  LET mcp == SelectSeq(r.calls, IsMcp)
  IN [i \in DOMAIN mcp |-> ToolApproval(mcp[i])]
ApprovingPrints(r) ==
  LET mcp == SelectSeq(r.calls, IsMcp)
  IN [i \in DOMAIN mcp |-> Event("print_approving", mcp[i].kind)]

\* lines 109-119 (and 125, 107 when nothing is to be submitted): runs.get
R_GetRun ==
  /\ rpc = "get_run"
  /\ \/ \E r \in RunObjects(run.id) :
          /\ run' = r
          /\ thread' \in (IF r.status \in Terminal THEN AfterRun(thread, turns) ELSE {thread})
          /\ IF NeedsApproval(r)
             THEN /\ approvals' = BuildApprovals(r)
                  /\ IF approvals' # <<>>
                     THEN /\ rlog' = Append(rlog, Event("runs.get", Observed(r))) \o ApprovingPrints(r)
                          /\ rpc' = "submit"
                     ELSE /\ rlog' = rlog \o <<Event("runs.get", Observed(r)), Event("print_status", r.status)>>
                          /\ rpc' = AfterStatus(r)
             ELSE /\ approvals' = approvals
                  /\ rlog' = rlog \o <<Event("runs.get", Observed(r)), Event("print_status", r.status)>>
                                  \o AfterStatusLog(r)
                  /\ rpc' = AfterStatus(r)
     \/ /\ rlog' = Raised(rlog, "runs.get", Observed(NoRun))
        /\ rpc' = "crashed"
        /\ UNCHANGED <<run, thread, approvals>>
  /\ UNCHANGED <<file, provisioned, rcfg, agent_id, rline, user_input, turns, rfile0>>
  /\ UNCHANGED pvars

\* lines 120-125 and 107: submit the approvals, print the status, loop.
\* `approvals` is the list of one iteration (line 114 rebuilds it before any
\* later read), so it is empty again once the iteration's submission is over.
R_Submit ==
  /\ rpc = "submit"
  /\ \/ /\ rlog' = rlog \o <<Event("submit_tool_outputs", Len(approvals)),
                             Event("print_status", run.status)>>
        /\ rpc' = AfterStatus(run)
     \/ /\ rlog' = Raised(rlog, "submit_tool_outputs", Len(approvals))
        /\ rpc' = "crashed"
  /\ approvals' = <<>>
  /\ UNCHANGED <<file, provisioned, rcfg, agent_id, thread, run, rline, user_input, turns, rfile0>>
  /\ UNCHANGED pvars

\* lines 133-137: the text of the last assistant message that has text
\* segments, scanning from the newest; NoReply (None) when there is none.
NoReply == [found |-> FALSE, turn |-> 0, text |-> <<>>]
\* Mutant: the role of the message is not looked at.
last_assistant_AnyRole(msgs) ==
  LET idx == {i \in DOMAIN msgs : msgs[i].texts # <<>>}
  IN IF idx = {} THEN NoReply
     ELSE LET msg == msgs[CHOOSE i \in idx : \A j \in idx : j <= i]
          IN [found |-> TRUE, turn |-> msg.turn, text |-> msg.texts[Len(msg.texts)]]
RECURSIVE last_assistant(_)
last_assistant(msgs) ==
  IF msgs = <<>> THEN NoReply
  ELSE LET msg == msgs[Len(msgs)]
       IN IF msg.role = "assistant" /\ msg.texts # <<>>
          THEN [found |-> TRUE, turn |-> msg.turn, text |-> msg.texts[Len(msg.texts)]]
          ELSE last_assistant(SubSeq(msgs, 1, Len(msgs) - 1))

\* lines 138-139: print it when it is not empty
AssistantPrint(msgs) ==
  LET la == last_assistant(msgs)
  IN IF la.found /\ la.text # <<>> THEN <<Event("print_assistant", la)>> ELSE <<>>

\* lines 132-139: messages.list and the reply
R_ListMessages ==
  /\ rpc = "list_messages"
  /\ \/ /\ rlog' = Append(rlog, Event("messages.list", "asc")) \o AssistantPrint(thread)
        /\ rpc' = "list_steps"
     \/ /\ rlog' = Raised(rlog, "messages.list", "asc")
        /\ rpc' = "crashed"
  /\ UNCHANGED <<file, provisioned, rcfg, agent_id, thread, run, approvals, rline, user_input, turns, rfile0>>
  /\ UNCHANGED pvars

\* lines 143-148: one note per tool of every tool-activity step
RECURSIVE ToolNotes(_)
ToolNotes(steps) ==
  IF steps = <<>> THEN <<>>
  ELSE LET step == Head(steps)
       IN (IF step.activity
           THEN [i \in DOMAIN step.tools |-> Event("print_tool_used", step.tools[i])]
           ELSE <<>>) \o ToolNotes(Tail(steps))

\* lines 142-148: run_steps.list and the tool notes
R_ListSteps ==
  /\ rpc = "list_steps"
  /\ \/ \E steps \in StepLists :
          /\ rlog' = Append(rlog, Event("run_steps.list", run.id)) \o ToolNotes(steps)
          /\ rpc' = "input"
     \/ /\ rlog' = Raised(rlog, "run_steps.list", run.id)
        /\ rpc' = "crashed"
  /\ UNCHANGED <<file, provisioned, rcfg, agent_id, thread, run, approvals, rline, user_input, turns, rfile0>>
  /\ UNCHANGED pvars

\* lines 153-154: main has returned or raised; the process is gone.
R_Exit ==
  /\ rpc \in {"exit0", "fatal", "crashed"}
  /\ rpc' = "idle"
  /\ rcfg' = NoRCfg
  /\ agent_id' = None
  /\ thread' = <<>>
  /\ run' = NoRun
  /\ approvals' = <<>>
  /\ rline' = NoLine
  /\ user_input' = <<>>
  /\ turns' = 0
  /\ rlog' = <<>>
  /\ rfile0' = FileAbsent
  /\ UNCHANGED <<file, provisioned>>
  /\ UNCHANGED pvars

\* ---------------------------------------------------------- specification
Init ==
  /\ file \in InitialFiles
  /\ provisioned = [n \in Names |-> None]
  /\ ppc = [p \in ProvIds |-> "idle"]
  /\ pcfg = [p \in ProvIds |-> NoCfg]
  /\ pagent = [p \in ProvIds |-> None]
  /\ pstore = [p \in ProvIds |-> Dict(EmptyMap)]
  /\ plog = [p \in ProvIds |-> <<>>]
  /\ pfile0 = [p \in ProvIds |-> FileAbsent]
  /\ rpc = "idle"
  /\ rcfg = NoRCfg
  /\ agent_id = None
  /\ thread = <<>>
  /\ run = NoRun
  /\ approvals = <<>>
  /\ rline = NoLine
  /\ user_input = <<>>
  /\ turns = 0
  /\ rlog = <<>>
  /\ rfile0 = FileAbsent

\* The Provisioner, run alone.
ProvisionerNext ==
  \/ \E p \in ProvIds : NoneRunning /\ P_Start(p)
  \/ \E p \in ProvIds : P_CreateAgent(p)
  \/ \E p \in ProvIds : P_Load(p)
  \/ \E p \in ProvIds : P_Save(p)
  \/ \E p \in ProvIds : P_Exit(p)

\* The Runner, run alone.
RunnerNext ==
  \/ NoneRunning /\ R_Start
  \/ R_GetAgent
  \/ R_CreateThread
  \/ R_Input
  \/ R_CreateMessage
  \/ R_CreateRun
  \/ R_Sleep
  \/ R_GetRun
  \/ R_Submit
  \/ R_ListMessages
  \/ R_ListSteps
  \/ R_Exit

Next == ProvisionerNext \/ RunnerNext

\* The two tools over one registry file, invoked one at a time, any number
\* of times, in any order.
Spec == Init /\ [][Next]_vars

\* Runner sessions over the registry left by one provisioning of "a".
SessionInit ==
  /\ Init
  /\ file = save_store(SetItem(EmptyMap, "a", "id1"))
SpecSession == SessionInit /\ [][RunnerNext]_vars

\* Both tools, the Runner up to its first prompt.
StartupNext ==
  \/ ProvisionerNext
  \/ NoneRunning /\ R_Start
  \/ R_GetAgent
  \/ R_CreateThread
  \/ R_Exit
SpecStartup == Init /\ [][StartupNext]_vars

\* The steps the Runner takes by itself once started: everything but being
\* invoked (R_Start) and being given a line (R_Input).
RunnerProgress ==
  \/ R_GetAgent
  \/ R_CreateThread
  \/ R_CreateMessage
  \/ R_CreateRun
  \/ R_Sleep
  \/ R_GetRun
  \/ R_Submit
  \/ R_ListMessages
  \/ R_ListSteps
  \/ R_Exit
\* Runner sessions in which the process is not suspended for ever: a call
\* returns or raises, a sleep ends.
SpecSessionLive == SessionInit /\ [][RunnerNext]_vars /\ WF_vars(RunnerProgress)

\* Provisioner invocations that may overlap: nothing in the code makes an
\* invocation wait for another, and load (line 92) and save (line 94) are
\* separate steps.
ConcurrentNext ==
  \/ \E p \in ProvIds : P_Start(p)
  \/ \E p \in ProvIds : P_CreateAgent(p)
  \/ \E p \in ProvIds : P_Load(p)
  \/ \E p \in ProvIds : P_Save(p)
  \/ \E p \in ProvIds : P_Exit(p)
\* They start over no file or over a file as save_store writes it.
ConcurrentInit ==
  /\ Init
  /\ \/ file = FileAbsent
     \/ file.kind = "object" /\ file = save_store(PairsToMap(file.pairs))
SpecConcurrent == ConcurrentInit /\ [][ConcurrentNext]_vars

\* Provisioner invocations alone, over every initial registry file.
SpecProvisioner == Init /\ [][ProvisionerNext]_vars

\* ------------------------------------------------------------ properties
Range(q) == {q[i] : i \in DOMAIN q}
OpsOf(log) == [i \in DOMAIN log |-> log[i].op]
Count(op, ops) == Cardinality({i \in DOMAIN ops : ops[i] = op})
\* The remote calls and sleeps of a log, in order.
StepsOf(log) == SelectSeq(OpsOf(log), LAMBDA o : o \in RemoteOps \cup {"sleep"})
NoRemoteCall(log) == \A i \in DOMAIN log : log[i].op \notin RemoteOps
\* The events that returned a run, in order.
StatusEvents(log) == SelectSeq(log, LAMBDA e : e.op \in {"runs.create", "runs.get"})
StatusesOf(log) ==
  LET se == StatusEvents(log)
  IN [i \in DOMAIN se |-> se[i].arg.status]
KeysOf(f) == {f.pairs[i][1] : i \in DOMAIN f.pairs}

\* C1: a successful provisioning of name n over a file that parses to the
\* mapping M leaves a file that parses to M with n set to the returned
\* identifier: the keys are those of M and n, and every other key keeps its
\* value.
C1_StorageIsMerge ==
  \A p \in ProvIds :
    (ppc[p] = "done" /\ pfile0[p].kind = "object") =>
      LET M == PairsToMap(pfile0[p].pairs)
          n == pcfg[p].name
          after == json_loads(file)
      IN /\ file.kind = "object"
         /\ after.kind = "dict"
         /\ DOMAIN after.map = DOMAIN M \cup {n}
         /\ after.map[n] = pagent[p]
         /\ \A k \in DOMAIN M \ {n} : after.map[k] = M[k]

\* C1 witness: a name is reprovisioned with a new identifier while another
\* name has an entry.
C1_Witness ==
  \E p \in ProvIds :
    /\ ppc[p] = "done"
    /\ pfile0[p].kind = "object"
    /\ LET M == PairsToMap(pfile0[p].pairs)
       IN /\ pcfg[p].name \in DOMAIN M
          /\ M[pcfg[p].name] # pagent[p]
          /\ DOMAIN M # {pcfg[p].name}

C2_Script == <<"queued", "in_progress", "requires_action", "completed">>
C2_Polling ==
  <<"messages.create", "runs.create", "sleep", "runs.get", "sleep", "runs.get",
    "submit_tool_outputs", "sleep", "runs.get">>
C2_Case ==
  LET se == StatusEvents(rlog)
  IN /\ Len(se) = Len(C2_Script)
     /\ \A i \in DOMAIN se : se[i].arg.status = C2_Script[i]
     /\ se[3].arg.pending_mcp = 1
\* The newest message of the thread is an agent message whose final text
\* segment is not empty.
NewestIsReply ==
  /\ thread # <<>>
  /\ thread[Len(thread)].role = "assistant"
  /\ thread[Len(thread)].texts # <<>>
  /\ thread[Len(thread)].texts[Len(thread[Len(thread)].texts)] # <<>>
NewestText == thread[Len(thread)].texts[Len(thread[Len(thread)].texts)]

\* The batch about to be submitted approves each pending remote-tool call of
\* the fetched run, and holds nothing else.
BatchIsPendingMcp ==
  rpc = "submit" =>
    /\ approvals # <<>>
    /\ Len(approvals) = Len(PendingMcp(run))
    /\ \A k \in DOMAIN approvals : approvals[k].approve = TRUE
    /\ {approvals[k].tool_call_id : k \in DOMAIN approvals}
         = {run.calls[k].id : k \in {x \in DOMAIN run.calls : run.calls[x].kind = "mcp"}}

\* C2: in a turn whose run is created queued and whose fetches return
\* in-progress, requires-action with one pending remote-tool call, then
\* completed, the Runner sleeps before each of its three fetches, submits one
\* approval batch, which approves the pending call, fetches nothing after
\* completed, and at the end of the turn has printed the newest assistant text.
C2_ScriptedTurn ==
  /\ (/\ rpc = "submit"
      /\ StatusesOf(rlog) = SubSeq(C2_Script, 1, 3)
      /\ StatusEvents(rlog)[3].arg.pending_mcp = 1) => (BatchIsPendingMcp /\ Len(approvals) = 1)
  /\ C2_Case =>
    LET steps == StepsOf(rlog)
        rest == SubSeq(steps, Len(C2_Polling) + 1, Len(steps))
    IN /\ rpc \in {"list_messages", "list_steps", "input", "crashed"}
       /\ Len(steps) >= Len(C2_Polling)
       /\ SubSeq(steps, 1, Len(C2_Polling)) = C2_Polling
       /\ rest \in {<<>>, <<"messages.list">>, <<"messages.list", "run_steps.list">>}
       /\ \A i \in DOMAIN rlog :
            rlog[i].op = "submit_tool_outputs" => rlog[i].arg = 1
       /\ rpc = "input" =>
            /\ rest = <<"messages.list", "run_steps.list">>
            /\ NewestIsReply =>
                 \E i, j, k \in DOMAIN rlog :
                   /\ i < j /\ j < k
                   /\ rlog[i].op = "messages.list"
                   /\ rlog[j].op = "print_assistant"
                   /\ rlog[j].arg.text = NewestText
                   /\ rlog[k].op = "run_steps.list"

\* C2 witness: such a turn has ended with the reply printed.
C2_Witness ==
  /\ C2_Case
  /\ rpc = "input"
  /\ NewestIsReply
  /\ \E j \in DOMAIN rlog : rlog[j].op = "print_assistant"

C3_Case ==
  LET sts == StatusesOf(rlog)
  IN sts # <<>> /\ sts[Len(sts)] = "failed"
\* C3: when the status that ends polling is failed, the Runner has printed
\* the run's last error, lists neither messages nor run steps, prints no
\* reply, and is back at the prompt.
C3_FailedRun ==
  C3_Case =>
    /\ rpc = "input"
    /\ rlog[Len(rlog)].op = "print_run_failed"
    /\ rlog[Len(rlog)].arg = run.last_error
    /\ run.last_error = "error"
    /\ \A i \in DOMAIN rlog :
         rlog[i].op \notin {"messages.list", "run_steps.list", "print_assistant"}

\* C3 witness: a run failed after two fetches, in a second turn, with an
\* agent message on the thread.
C3_Witness ==
  /\ C3_Case
  /\ Len(StatusesOf(rlog)) = 3
  /\ turns = 2
  /\ NewestIsReply

\* Lines that are a quit command once trimmed and lower-cased.
C4_QuitLines ==
  { <<":", "q", "u", "i", "t">>, <<":", "q">>, <<":", "e", "x", "i", "t">>,
    <<" ", ":", "Q", " ">>, <<":", "E", "x", "i", "t">>, <<":", "Q", "U", "I", "T", "\t">> }
\* C4: after a quit command (:quit, :q, :exit in any case, with surrounding
\* whitespace) or end of input is read, the Runner has left the loop and
\* ended normally, having issued no remote call since reading it.
C4_Quit ==
  (rline \in C4_QuitLines \cup {EOF}) =>
    /\ rpc = "exit0"
    /\ NoRemoteCall(rlog)
    /\ rlog[Len(rlog)].op = "print_exiting"

\* C4 witness: an upper-case, padded :Q ends a session that had a turn.
C4_Witness ==
  /\ rline = <<" ", ":", "Q", " ">>
  /\ rpc = "exit0"
  /\ turns >= 1

C5_BlankLines == { <<>>, <<" ">>, <<"\t", " ">> }
\* C5: reading a line that is empty, or empty once trimmed, issues no remote
\* call, leaves the thread as it is and takes the Runner back to the prompt.
C5_Blank ==
  [][(rpc = "input" /\ rline' \in C5_BlankLines) =>
       /\ rpc' = "input"
       /\ thread' = thread
       /\ turns' = turns
       /\ run' = run
       /\ rlog' = <<>>]_vars

\* C5 witness: a whitespace-only line was read after a turn, and the Runner
\* prompts again.
C5_Witness ==
  /\ rline = <<"\t", " ">>
  /\ rpc = "input"
  /\ turns >= 1

\* C6: a Runner started with a name that is no key of the registry it loaded
\* has exited fatally, with no remote call, no prompt and no session output,
\* and the file is what it was.
C6_UnknownName ==
  (rpc # "idle" /\ rfile0.kind = "object" /\ rcfg.name \notin KeysOf(rfile0)) =>
    /\ rpc = "fatal"
    /\ \A i \in DOMAIN rlog : rlog[i].op = "read"
    /\ thread = <<>>
    /\ rline = NoLine
    /\ file = rfile0

\* C6 witness: the registry has an entry, for another name, and the endpoint
\* is configured.
C6_Witness ==
  /\ rpc = "fatal"
  /\ rfile0.kind = "object"
  /\ KeysOf(rfile0) # {}
  /\ rcfg.name \notin KeysOf(rfile0)
  /\ rcfg.endpoint = "set"

\* C7: a Runner started with a name whose latest successful provisioning
\* stored identifier i resolves i: its agent_id is i, and so are the agent it
\* retrieves and the agent_id of every run it creates.
C7_EndToEnd ==
  (rpc # "idle" /\ provisioned[rcfg.name] # None) =>
    /\ agent_id = provisioned[rcfg.name]
    /\ \A i \in DOMAIN rlog :
         /\ rlog[i].op = "get_agent" => rlog[i].arg = provisioned[rcfg.name]
         /\ rlog[i].op = "runs.create" => rlog[i].arg.agent_id = provisioned[rcfg.name]

\* C7 witness: a run was created in the second turn of a session for a name
\* provisioned in this history, while the other name maps to another
\* identifier.
C7_Witness ==
  /\ provisioned[rcfg.name] # None
  /\ turns = 2
  /\ \E i \in DOMAIN rlog : rlog[i].op = "runs.create"
  /\ file.kind = "object"
  /\ \E k \in KeysOf(file) : k # rcfg.name /\ PairsToMap(file.pairs)[k] # agent_id

\* C8: a Provisioner with no model (neither flag nor environment) or no
\* endpoint has exited fatally without calling create_agent or touching the
\* file; a Runner with no endpoint has ended without any remote call.
C8_ConfigFirst ==
  /\ \A p \in ProvIds :
       (/\ ppc[p] # "idle"
        /\ \/ pcfg[p].model = None /\ pcfg[p].env_model = None
           \/ pcfg[p].endpoint = None) =>
         /\ ppc[p] = "fatal"
         /\ plog[p] = <<>>
         /\ file = pfile0[p]
  /\ (rpc # "idle" /\ rcfg.endpoint = None) =>
       /\ rpc \in {"fatal", "crashed"}
       /\ NoRemoteCall(rlog)
       /\ thread = <<>>
       /\ file = rfile0

\* C8 witness: a Runner whose name is in the registry has no endpoint.
C8_Witness ==
  /\ rpc = "fatal"
  /\ rcfg.endpoint = None
  /\ rfile0.kind = "object"
  /\ rcfg.name \in KeysOf(rfile0)

\* The fetch an event at position i answers: the last runs.get before i.
LastFetchBefore(log, i) ==
  CHOOSE j \in 1..(i - 1) :
    /\ log[j].op = "runs.get"
    /\ \A k \in (j + 1)..(i - 1) : log[k].op # "runs.get"
\* Submissions between position j and the next sleep (or the end of the log).
SubmitsAfter(log, j) ==
  {i \in (j + 1)..Len(log) :
     /\ log[i].op = "submit_tool_outputs"
     /\ \A k \in (j + 1)..i : log[k].op # "sleep"}
\* C9: every submission answers the fetch just before it, which returned
\* requires-action with pending remote-tool calls, and approves exactly those
\* calls; a fetch is answered by at most one submission before the next
\* sleep, by none when no remote-tool call is pending, and by one when some
\* are; no record is a denial.
C9_ApprovalPolicy ==
  /\ \A i \in DOMAIN rlog :
       rlog[i].op = "submit_tool_outputs" =>
         /\ \E j \in 1..(i - 1) : rlog[j].op = "runs.get"
         /\ LET f == rlog[LastFetchBefore(rlog, i)].arg
            IN /\ f.status = "requires_action"
               /\ f.pending_mcp > 0
               /\ rlog[i].arg = f.pending_mcp
  /\ \A j \in DOMAIN rlog :
       rlog[j].op = "runs.get" =>
         /\ Cardinality(SubmitsAfter(rlog, j)) <= 1
         /\ rlog[j].arg.pending_mcp = 0 => SubmitsAfter(rlog, j) = {}
         /\ (/\ rlog[j].arg.pending_mcp > 0
             /\ \E k \in (j + 1)..Len(rlog) : rlog[k].op = "sleep")
              => Cardinality(SubmitsAfter(rlog, j)) = 1
  /\ BatchIsPendingMcp
  /\ (rpc = "submit") <=>
       (/\ rlog # <<>>
        /\ \E j \in DOMAIN rlog :
             /\ rlog[j].op = "runs.get"
             /\ rlog[j].arg.status = "requires_action"
             /\ rlog[j].arg.pending_mcp > 0
             /\ \A k \in (j + 1)..Len(rlog) : rlog[k].op = "print_approving")

\* C9 witness: of two pending calls, a function call and a remote-tool call,
\* one was approved, and the Runner is about to sleep again.
C9_Witness ==
  /\ rpc = "sleep"
  /\ Len(run.calls) = 2
  /\ run.calls[1].kind = "function"
  /\ run.calls[2].kind = "mcp"
  /\ rlog # <<>>
  /\ rlog[Len(rlog) - 1].op = "submit_tool_outputs"
  /\ rlog[Len(rlog) - 1].arg = 1

\* C10: create_agent is called at most once per invocation; when it fails
\* the process has terminated and the file was neither read nor written.
C10_FailureLeavesNoTrace ==
  \A p \in ProvIds :
    /\ Count("create_agent", plog[p]) <= 1
    /\ "raise" \in Range(plog[p]) =>
         /\ ppc[p] = "crashed"
         /\ plog[p] = <<"create_agent", "raise">>
         /\ file = pfile0[p]

\* C10 witness: create_agent failed over a registry that has entries.
C10_Witness ==
  \E p \in ProvIds :
    /\ ppc[p] = "crashed"
    /\ "raise" \in Range(plog[p])
    /\ pfile0[p].kind = "object"
    /\ pfile0[p].pairs # <<>>

\* C11: over a file that is absent or does not parse, the Provisioner's load
\* yields the empty mapping and a successful provisioning of n leaves a file
\* holding exactly {n -> returned identifier}; a Runner started over such a
\* file has exited fatally with no remote call, no thread and no prompt.
C11_LoadOutcomes ==
  /\ \A p \in ProvIds :
       (pfile0[p].kind \in {"absent", "invalid"}) =>
         /\ ppc[p] = "save" => pstore[p] = Dict(EmptyMap)
         /\ ppc[p] = "done" =>
              /\ file = FileObject(<< <<pcfg[p].name, pagent[p]>> >>)
              /\ json_loads(file) = Dict(SetItem(EmptyMap, pcfg[p].name, pagent[p]))
  /\ (rpc # "idle" /\ rfile0.kind \in {"absent", "invalid"}) =>
       /\ rpc = "fatal"
       /\ NoRemoteCall(rlog)
       /\ thread = <<>>
       /\ rline = NoLine
       /\ file = rfile0

\* C11 witness: a provisioning succeeded over a file that does not parse.
C11_Witness ==
  \E p \in ProvIds :
    /\ ppc[p] = "done"
    /\ pfile0[p].kind = "invalid"
    /\ file.kind = "object"

\* The mapping a file holds; the empty mapping when it holds none.
EntriesOf(f) == IF f.kind = "object" THEN PairsToMap(f.pairs) ELSE EmptyMap

\* C12: in every step of any sequence of invocations run one at a time, a
\* name that has an entry in the file still has one after the step, and
\* after the step every name provisioned so far maps to the identifier its
\* most recent successful provisioning returned.
C12_Lifecycle ==
  [][/\ \A n \in DOMAIN EntriesOf(file) : n \in DOMAIN EntriesOf(file')
     /\ \A n \in Names :
          provisioned'[n] # None =>
            /\ n \in DOMAIN EntriesOf(file')
            /\ EntriesOf(file')[n] = provisioned'[n]]_vars

\* C12 witness: both names have been provisioned, and the latest provisioning
\* replaced the identifier its name had.
C12_Witness ==
  \E p \in ProvIds :
    /\ ppc[p] = "done"
    /\ \A n \in Names : provisioned[n] # None
    /\ pcfg[p].name \in DOMAIN EntriesOf(pfile0[p])
    /\ EntriesOf(pfile0[p])[pcfg[p].name] # pagent[p]

\* C13: once a Provisioner has saved its non-empty store M, loading the file
\* (with either program's load) yields M, key for key, and saving what was
\* loaded writes the same file contents again.
C13_RoundTrip ==
  \A p \in ProvIds :
    ppc[p] = "done" =>
      LET M == pstore[p].map
      IN /\ DOMAIN M # {}
         /\ file = save_store(M)
         /\ load_store_create(file).kind = "dict"
         /\ DOMAIN load_store_create(file).map = DOMAIN M
         /\ \A k \in DOMAIN M : load_store_create(file).map[k] = M[k]
         /\ load_store_run_ok(file)
         /\ load_store_run(file) = load_store_create(file)
         /\ save_store(load_store_create(file).map) = file

\* C13 witness: a store of two entries was saved over a file whose keys were
\* not in sorted order.
C13_Witness ==
  \E p \in ProvIds :
    /\ ppc[p] = "done"
    /\ DOMAIN pstore[p].map = Names
    /\ pfile0[p].kind = "object"
    /\ Len(pfile0[p].pairs) = 2
    /\ pfile0[p].pairs[1][1] = "b"
    /\ pfile0[p].pairs[2][1] = "a"

\* The sleeps and status fetches of a log, in order.
PollSteps(log) == SelectSeq(OpsOf(log), LAMBDA o : o \in {"sleep", "runs.get"})
NoRaise(log) == \A i \in DOMAIN log : log[i].op # "raise"
\* The last status the Runner was given is outside the polling set.
TerminalSeen ==
  /\ StatusesOf(rlog) # <<>>
  /\ StatusesOf(rlog)[Len(StatusesOf(rlog))] \notin NonTerminal
\* A status fetch returned it.
TerminalFetched ==
  /\ TerminalSeen
  /\ StatusEvents(rlog)[Len(StatusEvents(rlog))].op = "runs.get"
\* Listing the messages or the run steps has failed.
ListingFailed ==
  \E i \in DOMAIN rlog : rlog[i].op = "raise" /\ rlog[i].arg \in {"messages.list", "run_steps.list"}
\* In a turn with a run and no failed call: the Runner is sleeping, fetching
\* or submitting exactly while every status it was given is in the polling
\* set; only the last status can be outside it; sleeps and fetches alternate,
\* sleep first.
C14_WhilePolling ==
  (StatusesOf(rlog) # <<>> /\ NoRaise(rlog)) =>
    /\ (\A i \in DOMAIN StatusesOf(rlog) : StatusesOf(rlog)[i] \in NonTerminal)
         <=> rpc \in {"sleep", "get_run", "submit"}
    /\ \A i \in 1..(Len(StatusesOf(rlog)) - 1) : StatusesOf(rlog)[i] \in NonTerminal
    /\ \A i \in DOMAIN PollSteps(rlog) :
         PollSteps(rlog)[i] = (IF i % 2 = 1 THEN "sleep" ELSE "runs.get")
    /\ rpc = "sleep" => Len(PollSteps(rlog)) % 2 = 0
    /\ rpc = "get_run" => Len(PollSteps(rlog)) % 2 = 1

\* C14 as stated: polling goes on exactly while the statuses are in the
\* polling set, and once a status outside it is returned the Runner
\* eventually prompts for input again.
C14_Original ==
  /\ []C14_WhilePolling
  /\ (TerminalFetched /\ NoRaise(rlog)) ~> (rpc = "input")

\* C14 amended: polling goes on exactly while the statuses are in the polling
\* set, and once a status outside it is returned the turn eventually ends:
\* the Runner prompts for input again, unless listing the messages or the run
\* steps fails, which ends the session.
C14_Polling ==
  /\ []C14_WhilePolling
  /\ (TerminalFetched /\ NoRaise(rlog)) ~> (rpc = "input" \/ ListingFailed)

\* C14 witness: after three fetches, one of them requires-action, the run
\* completed and the Runner prompts again.
C14_Witness ==
  /\ rpc = "input"
  /\ TerminalFetched
  /\ NoRaise(rlog)
  /\ Len(StatusesOf(rlog)) = 4
  /\ "requires_action" \in Range(StatusesOf(rlog))
  /\ StatusesOf(rlog)[4] = "completed"

Positions(log, op) == {i \in DOMAIN log : log[i].op = op}
\* Positions of the log where a run object with a status outside the polling
\* set was returned.
TerminalAt(log) ==
  {i \in DOMAIN log : log[i].op \in {"runs.create", "runs.get"} /\ log[i].arg.status \in Terminal}

\* The order of the calls in the log of the current turn.
TurnOrder ==
  (rpc \notin {"idle", "get_agent", "create_thread", "fatal"} /\ rline # NoLine) =>
    LET steps == StepsOf(rlog)
        sleeps == Positions(rlog, "sleep")
        gets == Positions(rlog, "runs.get")
        polls == sleeps \cup gets \cup Positions(rlog, "submit_tool_outputs")
        mlist == Positions(rlog, "messages.list")
        slist == Positions(rlog, "run_steps.list")
        creates == Positions(rlog, "runs.create")
        terminal == TerminalAt(rlog)
    IN /\ \A i \in DOMAIN steps :
            /\ i = 1 => steps[i] = "messages.create"
            /\ i = 2 => steps[i] = "runs.create"
            /\ i > 2 => steps[i] \notin {"messages.create", "runs.create"}
       /\ \A i \in gets :
            /\ i > 2
            /\ rlog[i - 1] = Event("sleep", PollInterval)
            /\ rlog[i - 2].op # "sleep"
       /\ \A i \in polls :
            /\ \E c \in creates : c < i
            /\ \A t \in terminal : i <= t
       /\ \A i \in mlist \cup slist : \E t \in terminal : t < i
       /\ \A i \in mlist : \A k \in polls \cup creates : k < i
       /\ \A i \in slist : \E k \in mlist : k < i
       /\ Cardinality(mlist) <= 1
       /\ Cardinality(slist) <= 1
       /\ (\E c \in creates : c \in terminal) => sleeps \cup gets = {}
       /\ Cardinality(sleeps) - Cardinality(gets) = (IF rpc = "get_run" THEN 1 ELSE 0)

\* C15: at every point of every turn, whatever the statuses: messages.create
\* is the first remote call and runs.create the second; every runs.get comes
\* right after exactly one sleep of the poll interval; sleeps and fetches
\* happen only after the run was created and never after a status outside
\* the polling set was returned; messages.list and run_steps.list happen once
\* each at most, only after such a status, messages.list first; and a run
\* created with a status outside the set is followed by no sleep and no
\* fetch.
C15_CallOrder == []TurnOrder

\* C15 witness: a turn of two fetches has ended with both lists requested.
C15_Witness ==
  /\ rpc = "input"
  /\ StepsOf(rlog) = <<"messages.create", "runs.create", "sleep", "runs.get", "sleep", "runs.get",
                       "messages.list", "run_steps.list">>

\* Positions in the thread of the agent's messages that have a text segment.
AgentWithText(th) == {i \in DOMAIN th : th[i].role = "assistant" /\ th[i].texts # <<>>}
\* The messages were listed in this turn, and the call returned.
Listed ==
  /\ Positions(rlog, "messages.list") # {}
  /\ \A i \in DOMAIN rlog : ~(rlog[i].op = "raise" /\ rlog[i].arg = "messages.list")

\* C16: once the messages of a thread were listed after a non-failed
\* terminal run, a reply was printed at most once, right after the listing,
\* and its text is the final text segment of the latest agent message that
\* has a text segment, whatever messages of other roles or without text
\* segments come after it; that text, when not empty, has been printed; with
\* no such message nothing was printed as the reply.
C16_ReplySelection ==
  Listed =>
    LET idx == AgentWithText(thread)
        prints == Positions(rlog, "print_assistant")
    IN /\ run.status \in Terminal \ {"failed"}
       /\ Cardinality(prints) <= 1
       /\ \A q \in prints : rlog[q - 1].op = "messages.list"
       /\ idx = {} => prints = {}
       /\ idx # {} =>
            LET msg == thread[CHOOSE i \in idx : \A j \in idx : j <= i]
                text == msg.texts[Len(msg.texts)]
            IN /\ \A q \in prints : rlog[q].arg.text = text
               /\ text # <<>> => prints # {}

\* C16 witness: the reply printed is the second segment of an agent message
\* that is followed by a user message and an agent message without text.
C16_Witness ==
  /\ Listed
  /\ Positions(rlog, "print_assistant") # {}
  /\ Len(thread) = 4
  /\ thread[1].role = "user"
  /\ thread[2].role = "assistant"
  /\ Len(thread[2].texts) = 2
  /\ thread[3].role = "user"
  /\ thread[4].role = "assistant"
  /\ thread[4].texts = <<>>

\* C20: a reply printed in a turn is an agent message added to the thread in
\* that turn, after the turn's user message.
C20_ReplyOfThisTurn ==
  \A i \in Positions(rlog, "print_assistant") : rlog[i].arg.turn = turns

\* The mapping m with n set to i, written out.
WithEntry(m, n, i) == [x \in DOMAIN m \cup {n} |-> IF x = n THEN i ELSE m[x]]
\* p has saved and q has loaded but not saved; both loaded the same mapping,
\* and q's copy does not show p's entry: q loaded before p saved.
BothLoadedFirst(p, q) ==
  /\ p # q
  /\ ppc[p] = "done"
  /\ ppc[q] = "save"
  /\ pcfg[p].name # pcfg[q].name
  /\ pstore[q].kind = "dict"
  /\ pstore[p].map = WithEntry(pstore[q].map, pcfg[p].name, pagent[p])
  /\ pstore[q].map # pstore[p].map
  /\ EntriesOf(file) = pstore[p].map

\* C17: when two Provisioners for different names have both loaded the
\* registry before either saved, the later save leaves a file that holds
\* exactly what the later one loaded plus its own entry; the entry the
\* earlier one stored is not in it.
C17_LastWriterWins ==
  [][\A p, q \in ProvIds :
       (BothLoadedFirst(p, q) /\ ppc'[q] = "done") =>
         /\ file'.kind = "object"
         /\ EntriesOf(file') = WithEntry(pstore[q].map, pcfg[q].name, pagent[q])
         /\ EntriesOf(file') = pstore'[q].map
         /\ ppc'[p] = "done"
         /\ \/ pcfg[p].name \notin DOMAIN EntriesOf(file')
            \/ EntriesOf(file')[pcfg[p].name] # pagent[p]]_vars

\* C17 witness: both have finished, and the name of one of them has no
\* entry in the file.
C17_Witness ==
  \E p, q \in ProvIds :
    /\ p # q
    /\ ppc[p] = "done"
    /\ ppc[q] = "done"
    /\ pcfg[p].name # pcfg[q].name
    /\ pcfg[p].name \notin DOMAIN EntriesOf(file)
    /\ EntriesOf(file) = pstore[q].map

InLoopCalls == {"messages.create", "runs.create", "runs.get"}
\* A failure of one of the in-loop calls is the last thing the session did:
\* the call was attempted, it raised, and the process is ending.
C18_FailureIsLast ==
  \A i \in DOMAIN rlog :
    (rlog[i].op = "raise" /\ rlog[i].arg \in InLoopCalls) =>
      /\ rpc = "crashed"
      /\ i = Len(rlog)
      /\ rlog[i - 1].op = rlog[i].arg
      /\ \A j \in 1..(i - 1) : rlog[j].op # "raise"
\* C18: when messages.create, runs.create or runs.get fails in a turn, the
\* failure ends the session: it is the last entry of the log, no prompt and
\* no remote call follow it, and the only step left is the end of the
\* process.
C18_NotCaught ==
  /\ []C18_FailureIsLast
  /\ [][rpc = "crashed" => (rpc' = "idle" /\ rlog' = <<>> /\ thread' = <<>>)]_vars

\* C18 witness: the second status fetch of a second turn failed.
C18_Witness ==
  /\ rpc = "crashed"
  /\ turns = 2
  /\ Fetches(rlog) = 2
  /\ rlog[Len(rlog)] = Event("raise", "runs.get")

\* C19: while a Runner process is alive, and so at each of its exits, the
\* file is what it was when the process started.
C19_RunnerOnlyReads ==
  rpc # "idle" => file = rfile0

\* C19 witness: a session of at least one turn over a file whose keys are
\* not in sorted order was ended by a quit command.
C19_Witness ==
  /\ rpc = "exit0"
  /\ turns >= 1
  /\ rline \in C4_QuitLines
  /\ rfile0.kind = "object"
  /\ Len(rfile0.pairs) = 2
  /\ rfile0.pairs[1][1] = "b"
  /\ rfile0.pairs[2][1] = "a"
====
